---- MODULE Spec2Model ----
(***************************************************************************)
(* The 360-degree capture component ProCamera360                           *)
(* (src/frontend/src/components/ProCamera360.jsx) as a state machine.      *)
(*                                                                         *)
(* The component is a React function component: every handler is a closure *)
(* over the values of the render in which it was created.  A capture       *)
(* session is therefore a record of the values captured when the start     *)
(* button was clicked (quality settings, enhancement flag, orientation     *)
(* sample, stream) together with the session's local `frames` array and    *)
(* its timers.  Time is a clock in milliseconds that jumps to the next due *)
(* timer; promise resolutions (frame grabs, stitching) and user actions    *)
(* may happen at any instant.                                              *)
(***************************************************************************)
EXTENDS Integers, Sequences, FiniteSets, TLC

(* ------------------------------ bounds -------------------------------- *)
\* capture sessions started in one mounted component
MaxSessions == 2
\* frame grabs of one guided session whose toBlob callback is still pending
MaxGuidedInFlight == 25
\* frame grabs of one automatic session whose toBlob callback is still pending
MaxAutoInFlight == 2
\* manual frame grabs whose toBlob callback is still pending
MaxManualGrabs == 2
\* frames kept in the component state by manual captures
MaxManualFrames == 13
\* the clock stops here (ms)
MaxTime == 61000
\* MediaStreams handed out by getUserMedia
MaxStreams == 3
\* clicks of the user on the mode, quality, enhancement and process controls
MaxClicks == 2
\* the time (ms) a steadily rotating device takes for one angle increment
RotateStepMs == 800
RasterWidth == 4
RasterHeight == 3
MaxFrames == 48
EnhancePixels == 3

(* ------------------------- program constants -------------------------- *)
\* useState(null): no orientation sample / no stream
NULL == -1
GuidedIntervalMs == 200
SafetyTimeoutMs == 60000
AutoIntervalMs == 500
captureDuration == 20000
StitchDelayMs == 500
TOTAL_FRAMES == 36
PanoIntervalMs == 500
AutoStopMs == 30000
PanoMinFrames == 12
ManualMinFrames == 12
\* settings.frames * 0.75, as the fraction 3/4
CoverageNum == 3
CoverageDen == 4
FullCircle == 360
HalfCircle == 180

Modes == {"guided", "auto", "manual"}
Qualities == {"high", "ultra", "pro"}
\* headings (alpha) the orientation sensor reports in the model
Headings == {0, 350}
\* a denser sample of the headings in [0, 360)
HeadingSamples == {a \in 0..359 : a % 10 \in {0, 1, 9}}

\* quality is the JPEG quality in percent
QUALITY_SETTINGS ==
  [high  |-> [frames |-> 24, width |-> 3840, height |-> 1920, quality |-> 85],
   ultra |-> [frames |-> 36, width |-> 4096, height |-> 2048, quality |-> 92],
   pro   |-> [frames |-> 60, width |-> 8192, height |-> 4096, quality |-> 95]]

VARIABLES
  mounted,            \* the component is mounted (videoRef/canvasRef are set)
  stream,             \* state `stream`: NULL or the id of a MediaStream
  liveStreams,        \* ids of the MediaStreams whose tracks are not stopped
  camPending,         \* getUserMedia promises not yet settled
  nextStream,         \* the id the next MediaStream gets
  cameraActive,       \* state `cameraActive`
  listening,          \* a deviceorientation listener is registered
  mode,               \* state `mode`
  captureQuality,     \* state `captureQuality`
  aiEnhancement,      \* state `aiEnhancement`
  capturing,          \* state `capturing`
  capturedFrames,     \* state `capturedFrames`
  deviceOrientation,  \* state `deviceOrientation` (its alpha) or NULL
  initialOrientation, \* state `initialOrientation` (its alpha) or NULL
  progress,           \* state `progress`, a percentage, as the fraction num/den
  now,                \* the clock, ms
  sessions,           \* the closures of startGuidedCapture / startAutoCapture
  manualGrabs,        \* pending captureManualFrame calls
  stitchTimers,       \* setTimeout(() => stitchProfessionalPanorama(frames), 500)
  stitching,          \* running stitchProfessionalPanorama calls
  delivered,          \* the files handed to onCapture, in order
  clicks,             \* clicks on the mode, quality, enhancement and process controls
  imageData,          \* the ImageData a pixel routine works on: width, height, data
  original,           \* the copy of `data` taken before the routine ran
  applied,            \* the pixel routine that has run on imageData
  levels,             \* enhanceImageData's minBrightness, maxBrightness and scale
  panoCanvas          \* the assembler's canvas: the drawing operations so far

vars == <<mounted, stream, liveStreams, camPending, nextStream, cameraActive, listening,
          mode, captureQuality, aiEnhancement, capturing, capturedFrames,
          deviceOrientation, initialOrientation, progress, now, sessions,
          manualGrabs, stitchTimers, stitching, delivered, clicks,
          imageData, original, applied, levels, panoCanvas>>

camVars == <<stream, liveStreams, camPending, nextStream, cameraActive, listening>>
uiVars == <<mode, captureQuality, aiEnhancement, clicks>>
orientVars == <<deviceOrientation, initialOrientation, progress>>
pixelVars == <<imageData, original, applied, levels, panoCanvas>>
componentVars == <<mounted, camVars, uiVars, capturing, capturedFrames,
                   orientVars, now, sessions, manualGrabs, stitchTimers,
                   stitching, delivered>>

(* ------------------------------ helpers ------------------------------- *)
settings(q) == QUALITY_SETTINGS[q]

Abs(x) == IF x < 0 THEN -x ELSE x

Min(S) == CHOOSE x \in S : \A y \in S : x <= y

\* a captured frame: the session that grabbed it (0: a manual capture) and
\* whether enhanceImageData was applied to it
Frame(s, enh) == [sess |-> s, enh |-> enh]

SessionIds == 1..Len(sessions)

\* `x || 0` on a number
OrZero(x) == IF x = 0 THEN 0 ELSE x

\* setState on an unmounted component changes nothing
SetState(cur, new) == IF mounted THEN new ELSE cur

\* a value of the progress state: (num / den) * 100
Fraction(num, den) == [num |-> num, den |-> den]

\* useState(0) and setProgress(0)
ZeroProgress == Fraction(0, 1)

\* no pixel routine is running
NoImage == [width |-> 0, height |-> 0, data |-> <<>>]

NoLevels == [min3 |-> 0, max3 |-> 0, scale |-> Fraction(1, 1)]

NoCanvas == [width |-> 0, frames |-> 0, i |-> 0, ops |-> <<>>]

PixelsIdle ==
  /\ imageData = NoImage
  /\ original = <<>>
  /\ applied = "none"
  /\ levels = NoLevels
  /\ panoCanvas = NoCanvas

(* ---------------------- construction (first render) -------------------- *)
\* After the first render the effect has called startCamera() and has
\* registered the orientation listener.
Init ==
  /\ mounted = TRUE
  /\ stream = NULL
  /\ liveStreams = {}
  /\ camPending = 1
  /\ nextStream = 1
  /\ cameraActive = FALSE
  /\ listening = TRUE
  /\ mode = "guided"
  /\ captureQuality = "ultra"
  /\ aiEnhancement = TRUE
  /\ capturing = FALSE
  /\ capturedFrames = <<>>
  /\ deviceOrientation = NULL
  /\ initialOrientation = NULL
  /\ progress = ZeroProgress
  /\ now = 0
  /\ sessions = <<>>
  /\ manualGrabs = <<>>
  /\ stitchTimers = <<>>
  /\ stitching = <<>>
  /\ delivered = <<>>
  /\ clicks = 0
  /\ PixelsIdle

(* ------------------- the effect of lines 48-76 ------------------------- *)
\* The effect depends on [stream, handleOrientation]; handleOrientation is
\* re-created when initialOrientation or mode changes.  When a dependency
\* changes, the previous effect's cleanup stops the tracks of the stream it
\* closed over (the stream state before the change) and the effect body calls
\* startCamera() again.
EffectRerun(oldStream) ==
  /\ liveStreams' = liveStreams \ {oldStream}
  /\ camPending' = camPending + 1
  /\ listening' = TRUE

(* ------------------------------ camera -------------------------------- *)
\* startCamera, getUserMedia resolved (lines 91-98)
StartCameraGranted ==
  /\ camPending > 0
  /\ nextStream <= MaxStreams
  /\ nextStream' = nextStream + 1
  /\ IF mounted
       THEN /\ stream' = nextStream
            /\ cameraActive' = TRUE
            /\ liveStreams' = (liveStreams \ {stream}) \cup {nextStream}
            /\ camPending' = camPending
            /\ listening' = TRUE
       ELSE /\ liveStreams' = liveStreams \cup {nextStream}
            /\ camPending' = camPending - 1
            /\ UNCHANGED <<stream, cameraActive, listening>>
  /\ UNCHANGED <<mounted, uiVars, capturing, capturedFrames, orientVars, now,
                 sessions, manualGrabs, stitchTimers, stitching, delivered>>
  /\ UNCHANGED pixelVars

\* startCamera, getUserMedia rejected (lines 99-102)
StartCameraDenied ==
  /\ camPending > 0
  /\ camPending' = camPending - 1
  /\ UNCHANGED <<mounted, stream, liveStreams, nextStream, cameraActive,
                 listening, uiVars, capturing, capturedFrames, orientVars, now,
                 sessions, manualGrabs, stitchTimers, stitching, delivered>>
  /\ UNCHANGED pixelVars

(* ---------------------------- orientation ----------------------------- *)
\* Math.abs(newOrientation.alpha - initialOrientation.alpha) (line 42)
RotationDegrees(a, b) == Abs(a - b)

\* a rotation that is not folded back at the half circle
UnfoldedRotation(a, b) == RotationDegrees(a, b)

\* rotationDegrees > 180 ? 360 - rotationDegrees : rotationDegrees (line 43)
NormalizedRotation(a, b) ==
  IF RotationDegrees(a, b) > HalfCircle THEN FullCircle - RotationDegrees(a, b)
  ELSE RotationDegrees(a, b)

\* handleOrientation (lines 31-46) called with event.alpha = a
HandleOrientation(a) ==
  /\ mounted
  /\ listening
  /\ deviceOrientation # a
  /\ deviceOrientation' = OrZero(a)
  /\ IF initialOrientation # NULL /\ mode = "guided"
       THEN progress' = Fraction(NormalizedRotation(OrZero(a), initialOrientation),
                                 FullCircle)
       ELSE UNCHANGED progress
  /\ UNCHANGED <<mounted, camVars, uiVars, capturing, capturedFrames,
                 initialOrientation, now, sessions, manualGrabs, stitchTimers,
                 stitching, delivered>>
  /\ UNCHANGED pixelVars

(* ------------------------- the user's controls ------------------------ *)
\* Mode Selection buttons (lines 564-582): onClick={() => setMode(m.id)}
SelectMode(m) ==
  /\ mounted
  /\ m # mode
  /\ clicks < MaxClicks
  /\ clicks' = clicks + 1
  /\ mode' = m
  /\ EffectRerun(stream)
  /\ UNCHANGED <<mounted, stream, nextStream, cameraActive, captureQuality,
                 aiEnhancement, capturing, capturedFrames, orientVars, now,
                 sessions, manualGrabs, stitchTimers, stitching, delivered>>
  /\ UNCHANGED pixelVars

\* Quality Selector buttons (lines 585-599): onClick={() => setCaptureQuality(q)}
SelectQuality(q) ==
  /\ mounted
  /\ q # captureQuality
  /\ clicks < MaxClicks
  /\ clicks' = clicks + 1
  /\ captureQuality' = q
  /\ UNCHANGED <<mounted, camVars, mode, aiEnhancement, capturing,
                 capturedFrames, orientVars, now, sessions, manualGrabs,
                 stitchTimers, stitching, delivered>>
  /\ UNCHANGED pixelVars

\* AI Enhance toggle (lines 539-544)
ToggleAiEnhancement ==
  /\ mounted
  /\ clicks < MaxClicks
  /\ clicks' = clicks + 1
  /\ aiEnhancement' = ~aiEnhancement
  /\ UNCHANGED <<mounted, camVars, mode, captureQuality, capturing,
                 capturedFrames, orientVars, now, sessions, manualGrabs,
                 stitchTimers, stitching, delivered>>
  /\ UNCHANGED pixelVars

\* close button (lines 443-447): stopCamera(); onClose().  The parent
\* unmounts the component, whose effect cleanup stops the stream's tracks
\* and removes the orientation listener.  No timer is cleared.
Close ==
  /\ mounted
  /\ mounted' = FALSE
  /\ liveStreams' = liveStreams \ {stream}
  /\ stream' = NULL
  /\ cameraActive' = FALSE
  /\ listening' = FALSE
  /\ UNCHANGED <<camPending, nextStream, uiVars, capturing, capturedFrames,
                 orientVars, now, sessions, manualGrabs, stitchTimers,
                 stitching, delivered>>
  /\ UNCHANGED pixelVars

(* --------------------------- capture sessions -------------------------- *)
\* The closure of one startGuidedCapture / startAutoCapture call.
NewSession(kind, period) ==
  [kind             |-> kind,
   quality          |-> captureQuality,
   ai               |-> aiEnhancement,
   orient           |-> deviceOrientation,
   stream           |-> stream,
   frames           |-> <<>>,
   lastCaptureAngle |-> IF deviceOrientation = NULL THEN 0
                        ELSE OrZero(deviceOrientation),
   interval         |-> TRUE,
   nextTick         |-> now + period,
   timeout          |-> kind = "guided",
   deadline         |-> now + SafetyTimeoutMs,
   startTime        |-> now,
   inflight         |-> 0,
   notEnoughCoverage |-> FALSE]

\* the stitch timer completeCaptureAndProcess arms (line 313); src is the
\* session whose `frames` array was passed (0: the capturedFrames state, an
\* array that is never mutated, kept in snap); by is the call site: "count"
\* (line 245), "timeout" (line 255), "budget" (line 284), "finish" (line 629)
StitchTimer(src, by, snap, m, q, ai, st) ==
  [src |-> src, by |-> by, snap |-> snap, due |-> now + StitchDelayMs,
   captureMode |-> m, quality |-> q, ai |-> ai, stream |-> st]

\* completeCaptureAndProcess (lines 304-314) called from session s
SessionStitchTimer(s, by) ==
  StitchTimer(s, by, <<>>, sessions[s].kind, sessions[s].quality, sessions[s].ai,
              sessions[s].stream)

\* a coverage test that wants more than 75%
EnoughCoverageStrict(n, q) == CoverageDen * n > CoverageNum * settings(q).frames

\* frames.length >= settings.frames * 0.75 (line 254)
EnoughCoverage(n, q) == CoverageDen * n >= CoverageNum * settings(q).frames

\* frames.length >= settings.frames (line 243)
FrameCountReached(n, q) == n >= settings(q).frames

\* elapsed >= captureDuration (line 282)
BudgetOver(startTime) == now - startTime >= captureDuration

\* angleDiff >= angleIncrement || frames.length === 0 (lines 223-232), with
\* angleIncrement = 360 / settings.frames
ShouldCapture(currentAngle, lastAngle, n, q) ==
  \/ Abs(currentAngle - lastAngle) * settings(q).frames >= FullCircle
  \/ n = 0

\* a start button that is enabled without a camera
StartDisabledWhileCapturing(c, active) == c

\* the start button: disabled={capturing || !cameraActive} (line 605)
StartDisabled(c, active) == c \/ ~active

\* startGuidedCapture (lines 201-261), up to the arming of the two timers
StartGuidedCapture ==
  /\ mounted
  /\ mode = "guided"
  /\ ~StartDisabled(capturing, cameraActive)
  /\ Len(sessions) < MaxSessions
  /\ capturedFrames' = <<>>
  /\ capturing' = TRUE
  /\ progress' = ZeroProgress
  /\ sessions' = Append(sessions, NewSession("guided", GuidedIntervalMs))
  /\ IF initialOrientation = NULL /\ deviceOrientation # NULL
       THEN /\ initialOrientation' = deviceOrientation
            /\ EffectRerun(stream)
       ELSE UNCHANGED <<initialOrientation, liveStreams, camPending, listening>>
  /\ UNCHANGED <<mounted, stream, nextStream, cameraActive, uiVars,
                 deviceOrientation, now, manualGrabs, stitchTimers, stitching,
                 delivered>>
  /\ UNCHANGED pixelVars

\* startAutoCapture (lines 264-288), up to the arming of the interval
StartAutoCapture ==
  /\ mounted
  /\ mode = "auto"
  /\ ~StartDisabled(capturing, cameraActive)
  /\ Len(sessions) < MaxSessions
  /\ capturedFrames' = <<>>
  /\ capturing' = TRUE
  /\ sessions' = Append(sessions, NewSession("auto", AutoIntervalMs))
  /\ UNCHANGED <<mounted, camVars, uiVars, orientVars, now, manualGrabs,
                 stitchTimers, stitching, delivered>>
  /\ UNCHANGED pixelVars

\* Does the interval callback of session s call captureEnhancedFrame now?
\* guided: lines 226-232; auto: line 274.
TickGrabs(s) ==
  IF sessions[s].kind = "guided"
    THEN /\ sessions[s].orient # NULL
         /\ ShouldCapture(sessions[s].orient, sessions[s].lastCaptureAngle,
                          Len(sessions[s].frames), sessions[s].quality)
    ELSE TRUE

InFlightCap(s) ==
  IF sessions[s].kind = "guided" THEN MaxGuidedInFlight ELSE MaxAutoInFlight

Period(s) ==
  IF sessions[s].kind = "guided" THEN GuidedIntervalMs ELSE AutoIntervalMs

\* The interval callback of session s fires (lines 225-233, 273-274).  The
\* callback has no guard against a frame grab that is still pending.
\* captureEnhancedFrame returns null at once when the refs are gone (line 115);
\* otherwise it draws and its promise stays pending until toBlob calls back.
IntervalTick(s) ==
  /\ sessions[s].interval
  /\ sessions[s].nextTick <= now
  /\ IF TickGrabs(s) /\ mounted
       THEN /\ sessions[s].inflight < InFlightCap(s)
            /\ sessions' = [sessions EXCEPT
                 ![s].nextTick = @ + Period(s),
                 ![s].inflight = @ + 1]
       ELSE sessions' = [sessions EXCEPT ![s].nextTick = @ + Period(s)]
  /\ UNCHANGED <<mounted, camVars, uiVars, capturing, capturedFrames,
                 orientVars, now, manualGrabs, stitchTimers, stitching,
                 delivered>>
  /\ UNCHANGED pixelVars

\* Is the session complete after a frame was pushed?  guided: line 243;
\* auto: line 282.
CompletesAfterPush(s, n) ==
  IF sessions[s].kind = "guided"
    THEN FrameCountReached(n, sessions[s].quality)
    ELSE BudgetOver(sessions[s].startTime)

\* setProgress after a frame was pushed.  guided: lines 240-241; auto: lines
\* 279-280.
ProgressAfterPush(s, n) ==
  IF sessions[s].kind = "guided"
    THEN Fraction(n, settings(sessions[s].quality).frames)
    ELSE Fraction(now - sessions[s].startTime, captureDuration)

\* A pending captureEnhancedFrame of session s resolves with a blob: the
\* rest of the interval callback runs (lines 234-247, 275-286).
GrabResolved(s) ==
  /\ sessions[s].inflight > 0
  /\ LET fs == Append(sessions[s].frames, Frame(s, sessions[s].ai))
         done == CompletesAfterPush(s, Len(fs))
     IN /\ sessions' = [sessions EXCEPT
             ![s].inflight = @ - 1,
             ![s].frames = fs,
             ![s].lastCaptureAngle = sessions[s].orient,
             ![s].interval = IF done THEN FALSE ELSE @]
        /\ capturedFrames' = SetState(capturedFrames, fs)
        /\ progress' = SetState(progress, ProgressAfterPush(s, Len(fs)))
        /\ IF done
             THEN /\ capturing' = SetState(capturing, FALSE)
                  /\ stitchTimers' = Append(stitchTimers,
                       SessionStitchTimer(s, IF sessions[s].kind = "guided"
                                             THEN "count" ELSE "budget"))
             ELSE UNCHANGED <<capturing, stitchTimers>>
  /\ UNCHANGED <<mounted, camVars, uiVars, deviceOrientation,
                 initialOrientation, now, manualGrabs, stitching, delivered>>
  /\ UNCHANGED pixelVars

\* a miss that ends the session
GrabMissedAborts(s) ==
  /\ sessions[s].inflight > 0
  /\ sessions' = [sessions EXCEPT ![s].inflight = @ - 1,
                                  ![s].interval = FALSE]
  /\ capturing' = SetState(capturing, FALSE)
  /\ UNCHANGED <<mounted, camVars, uiVars, capturedFrames, orientVars, now,
                 manualGrabs, stitchTimers, stitching, delivered>>
  /\ UNCHANGED pixelVars

\* A pending captureEnhancedFrame resolves with null (toBlob yields no data)
\* or rejects: `if (frame)` is false and the callback ends (lines 234, 275).
GrabMissed(s) ==
  /\ sessions[s].inflight > 0
  /\ sessions' = [sessions EXCEPT ![s].inflight = @ - 1]
  /\ UNCHANGED <<mounted, camVars, uiVars, capturing, capturedFrames,
                 orientVars, now, manualGrabs, stitchTimers, stitching,
                 delivered>>
  /\ UNCHANGED pixelVars

\* The safety timeout of a guided session fires (lines 252-260).
SafetyTimeout(s) ==
  /\ sessions[s].timeout
  /\ sessions[s].deadline <= now
  /\ capturing' = SetState(capturing, FALSE)
  /\ IF EnoughCoverage(Len(sessions[s].frames), sessions[s].quality)
       THEN /\ sessions' = [sessions EXCEPT ![s].timeout = FALSE,
                                            ![s].interval = FALSE]
            /\ stitchTimers' = Append(stitchTimers,
                                       SessionStitchTimer(s, "timeout"))
       ELSE /\ sessions' = [sessions EXCEPT ![s].timeout = FALSE,
                                            ![s].interval = FALSE,
                                            ![s].notEnoughCoverage = TRUE]
            /\ UNCHANGED stitchTimers
  /\ UNCHANGED <<mounted, camVars, uiVars, capturedFrames, orientVars, now,
                 manualGrabs, stitching, delivered>>
  /\ UNCHANGED pixelVars

(* ------------------------------ manual mode ---------------------------- *)
\* Capture Frame button (lines 620-627, 291-292): captureManualFrame starts a
\* grab; the closure holds the capturedFrames of the render of the click.
CaptureManualFrame ==
  /\ mounted
  /\ mode = "manual"
  /\ cameraActive
  /\ Len(manualGrabs) < MaxManualGrabs
  /\ Len(capturedFrames) < MaxManualFrames
  /\ manualGrabs' = Append(manualGrabs,
                           [base |-> capturedFrames, ai |-> aiEnhancement])
  /\ UNCHANGED <<mounted, camVars, uiVars, capturing, capturedFrames,
                 orientVars, now, sessions, stitchTimers, stitching, delivered>>
  /\ UNCHANGED pixelVars

RemoveAt(seq, i) == SubSeq(seq, 1, i - 1) \o SubSeq(seq, i + 1, Len(seq))

\* the grab of a manual capture resolves with a blob (lines 293-301)
ManualGrabResolved(i) ==
  /\ i \in 1..Len(manualGrabs)
  /\ capturedFrames' = SetState(capturedFrames,
       Append(manualGrabs[i].base, Frame(0, manualGrabs[i].ai)))
  /\ manualGrabs' = RemoveAt(manualGrabs, i)
  /\ UNCHANGED <<mounted, camVars, uiVars, capturing, orientVars, now,
                 sessions, stitchTimers, stitching, delivered>>
  /\ UNCHANGED pixelVars

\* the grab of a manual capture resolves with null (line 293)
ManualGrabMissed(i) ==
  /\ i \in 1..Len(manualGrabs)
  /\ manualGrabs' = RemoveAt(manualGrabs, i)
  /\ UNCHANGED <<mounted, camVars, uiVars, capturing, capturedFrames,
                 orientVars, now, sessions, stitchTimers, stitching, delivered>>
  /\ UNCHANGED pixelVars

\* a Process button that wants more than 12 frames
ProcessEnabledAbove(n) == n > ManualMinFrames

\* disabled={capturedFrames.length < 12} (line 630)
ProcessEnabled(n) == n >= ManualMinFrames

\* Process button (lines 628-634): completeCaptureAndProcess(capturedFrames)
ProcessManual ==
  /\ mounted
  /\ mode = "manual"
  /\ ProcessEnabled(Len(capturedFrames))
  /\ clicks < MaxClicks
  /\ clicks' = clicks + 1
  /\ capturing' = FALSE
  /\ stitchTimers' = Append(stitchTimers,
       StitchTimer(0, "finish", capturedFrames, mode, captureQuality, aiEnhancement,
                   stream))
  /\ UNCHANGED <<mounted, camVars, mode, captureQuality, aiEnhancement,
                 capturedFrames, orientVars, now, sessions, manualGrabs,
                 stitching, delivered>>
  /\ UNCHANGED pixelVars

(* ------------------------------ stitching ------------------------------ *)
\* The 500 ms timer of completeCaptureAndProcess fires and
\* stitchProfessionalPanorama(frames) starts (line 313, lines 317-352).  The
\* timers all have the same delay, so they fire in the order they were armed.
\* A session's `frames` array is passed by reference: the assembler sees the
\* array as it is when it starts.
StitchStart ==
  /\ stitchTimers # <<>>
  /\ Head(stitchTimers).due <= now
  /\ LET j == Head(stitchTimers)
         fs == IF j.src = 0 THEN j.snap ELSE sessions[j.src].frames
     IN stitching' = Append(stitching, [j EXCEPT !.snap = fs])
  /\ stitchTimers' = Tail(stitchTimers)
  /\ UNCHANGED <<mounted, camVars, uiVars, capturing, capturedFrames,
                 orientVars, now, sessions, manualGrabs, delivered>>
  /\ UNCHANGED pixelVars

\* stopCamera (lines 105-111) called from a closure whose stream is st
StopCamera(st) ==
  IF st = NULL
    THEN UNCHANGED camVars
    ELSE /\ nextStream' = nextStream
         /\ IF mounted /\ stream # NULL
              THEN /\ stream' = NULL
                   /\ cameraActive' = FALSE
                   /\ liveStreams' = liveStreams \ {st, stream}
                   /\ camPending' = camPending + 1
                   /\ listening' = TRUE
              ELSE /\ stream' = SetState(stream, NULL)
                   /\ cameraActive' = SetState(cameraActive, FALSE)
                   /\ liveStreams' = liveStreams \ {st}
                   /\ UNCHANGED <<camPending, listening>>

\* panoCanvas.toBlob calls back with a blob (lines 362-387): the file and its
\* metadata go to onCapture, then stopCamera()
StitchFinished(i) ==
  /\ i \in 1..Len(stitching)
  /\ LET j == stitching[i]
     IN /\ delivered' = Append(delivered,
             [src |-> j.src,
              by |-> j.by,
              frames |-> j.snap,
              frameCount |-> IF j.src = 0 THEN Len(j.snap)
                             ELSE Len(sessions[j.src].frames),
              captureMode |-> j.captureMode,
              quality |-> j.quality,
              aiEnhanced |-> j.ai])
        /\ StopCamera(j.stream)
  /\ stitching' = RemoveAt(stitching, i)
  /\ UNCHANGED <<mounted, uiVars, capturing, capturedFrames, orientVars, now,
                 sessions, manualGrabs, stitchTimers>>
  /\ UNCHANGED pixelVars

\* createImageBitmap rejects (lines 390-393) or toBlob yields null (line 363)
StitchFailed(i) ==
  /\ i \in 1..Len(stitching)
  /\ stitching' = RemoveAt(stitching, i)
  /\ UNCHANGED <<mounted, camVars, uiVars, capturing, capturedFrames,
                 orientVars, now, sessions, manualGrabs, stitchTimers,
                 delivered>>
  /\ UNCHANGED pixelVars

(* ------------- the simple component (Camera360Capture.js) -------------- *)
\* Camera360Capture has the same state as ProCamera360 (stream, capturing,
\* capturedFrames, progress, deviceOrientation, cameraActive) and one capture
\* routine, startPanoramicCapture.  Its closures are sessions of kind "pano";
\* `capturing` in such a session is the value of the state in the render in
\* which the button was clicked, the value the auto-stop callback reads.
PanoSession ==
  [kind      |-> "pano",
   capturing |-> capturing,
   stream    |-> stream,
   frames    |-> <<>>,
   interval  |-> TRUE,
   nextTick  |-> now + PanoIntervalMs,
   timeout   |-> TRUE,
   deadline  |-> now + AutoStopMs,
   startTime |-> now,
   inflight  |-> 0]

\* a running stitchPanorama(frames) call; by is the call site: "count" (line
\* 123) or "autostop" (line 135)
PanoStitch(s, by, fs) ==
  [src |-> s, by |-> by, snap |-> fs, stream |-> sessions[s].stream]

\* the capture button (lines 284-297, disabled={capturing || !cameraActive});
\* startPanoramicCapture up to the two timers (lines 103-141)
StartPanoramicCapture ==
  /\ mounted
  /\ ~StartDisabled(capturing, cameraActive)
  /\ Len(sessions) < MaxSessions
  /\ capturedFrames' = <<>>
  /\ capturing' = TRUE
  /\ sessions' = Append(sessions, PanoSession)
  /\ UNCHANGED <<mounted, camVars, uiVars, orientVars, now, manualGrabs,
                 stitchTimers, stitching, delivered>>
  /\ UNCHANGED pixelVars

\* the interval callback up to `await captureFrame()` (lines 112-113);
\* captureFrame returns null at once when the refs are gone (line 82)
PanoTick(s) ==
  /\ sessions[s].kind = "pano"
  /\ sessions[s].interval
  /\ sessions[s].nextTick <= now
  /\ IF mounted
       THEN /\ sessions[s].inflight < MaxAutoInFlight
            /\ sessions' = [sessions EXCEPT
                 ![s].nextTick = @ + PanoIntervalMs,
                 ![s].inflight = @ + 1]
       ELSE sessions' = [sessions EXCEPT ![s].nextTick = @ + PanoIntervalMs]
  /\ UNCHANGED <<mounted, camVars, uiVars, capturing, capturedFrames,
                 orientVars, now, manualGrabs, stitchTimers, stitching,
                 delivered>>
  /\ UNCHANGED pixelVars

\* frames.length >= TOTAL_FRAMES (line 119)
PanoComplete(n) == n >= TOTAL_FRAMES

\* captureFrame resolves with a blob: the rest of the interval callback
\* (lines 114-125)
PanoGrabResolved(s) ==
  /\ sessions[s].kind = "pano"
  /\ sessions[s].inflight > 0
  /\ LET fs == Append(sessions[s].frames, Frame(s, FALSE))
         done == PanoComplete(Len(fs))
     IN /\ sessions' = [sessions EXCEPT
             ![s].inflight = @ - 1,
             ![s].frames = fs,
             ![s].interval = IF done THEN FALSE ELSE @]
        /\ capturedFrames' = SetState(capturedFrames, fs)
        /\ progress' = SetState(progress, Fraction(Len(fs), TOTAL_FRAMES))
        /\ IF done
             THEN /\ capturing' = SetState(capturing, FALSE)
                  /\ stitching' = Append(stitching, PanoStitch(s, "count", fs))
             ELSE UNCHANGED <<capturing, stitching>>
  /\ UNCHANGED <<mounted, camVars, uiVars, deviceOrientation,
                 initialOrientation, now, manualGrabs, stitchTimers, delivered>>
  /\ UNCHANGED pixelVars

\* captureFrame resolves with null (line 114)
PanoGrabMissed(s) ==
  /\ sessions[s].kind = "pano"
  /\ sessions[s].inflight > 0
  /\ sessions' = [sessions EXCEPT ![s].inflight = @ - 1]
  /\ UNCHANGED <<mounted, camVars, uiVars, capturing, capturedFrames,
                 orientVars, now, manualGrabs, stitchTimers, stitching,
                 delivered>>
  /\ UNCHANGED pixelVars

\* the auto-stop callback (lines 129-140): its body runs only when the
\* `capturing` of its closure is true
AutoStop(s) ==
  /\ sessions[s].kind = "pano"
  /\ sessions[s].timeout
  /\ sessions[s].deadline <= now
  /\ IF sessions[s].capturing
       THEN /\ sessions' = [sessions EXCEPT ![s].timeout = FALSE,
                                            ![s].interval = FALSE]
            /\ capturing' = SetState(capturing, FALSE)
            /\ IF Len(sessions[s].frames) >= PanoMinFrames
                 THEN stitching' = Append(stitching,
                        PanoStitch(s, "autostop", sessions[s].frames))
                 ELSE UNCHANGED stitching
       ELSE /\ sessions' = [sessions EXCEPT ![s].timeout = FALSE]
            /\ UNCHANGED <<capturing, stitching>>
  /\ UNCHANGED <<mounted, camVars, uiVars, capturedFrames, orientVars, now,
                 manualGrabs, stitchTimers, delivered>>
  /\ UNCHANGED pixelVars

\* stitchPanorama from its toBlob callback on (lines 168-174): onCapture(file),
\* then stopCamera()
StitchPanoramaFinished(i) ==
  /\ i \in 1..Len(stitching)
  /\ LET j == stitching[i]
     IN /\ delivered' = Append(delivered,
             [src |-> j.src, by |-> j.by, frames |-> j.snap])
        /\ StopCamera(j.stream)
  /\ stitching' = RemoveAt(stitching, i)
  /\ UNCHANGED <<mounted, uiVars, capturing, capturedFrames, orientVars, now,
                 sessions, manualGrabs, stitchTimers>>
  /\ UNCHANGED pixelVars

(* ---------------------------- pixel routines --------------------------- *)
\* const clamp = (value) => Math.max(0, Math.min(255, value)) (line 198)
clamp(value) == IF value < 0 THEN 0 ELSE IF value > 255 THEN 255 ELSE value

\* data[idx] of a typed array, whose indices start at 0
At(data, idx) == data[idx + 1]

kernel == <<-1, -1, -1, -1, 9, -1, -1, -1, -1>>
kernelSize == 3
halfKernel == kernelSize \div 2

\* the two inner loops of sharpenImage (lines 411-418) for pixel (x, y),
\* channel c
KernelSum(orig, width, x, y, c) ==
  LET term(ky, kx) ==
        At(orig, ((y + ky - halfKernel) * width + (x + kx - halfKernel)) * 4 + c)
          * kernel[ky * kernelSize + kx + 1]
      row(ky) == term(ky, 0) + term(ky, 1) + term(ky, 2)
  IN row(0) + row(1) + row(2)

\* a sharpening pass that filters the alpha channel as well
SharpenedChannelWithAlpha(c) == c < 4

\* for (let c = 0; c < 3; c++) (line 410)
SharpenedChannel(c) == c < 3

\* the bounds of the loops over y and x (lines 408-409)
InSharpenLoops(x, y, width, height) ==
  /\ y >= halfKernel /\ y < height - halfKernel
  /\ x >= halfKernel /\ x < width - halfKernel

\* the raster after sharpenImage(img) (lines 398-422): every sum is taken
\* from `original`, the copy of the data made at line 406
Sharpened(img) ==
  [img EXCEPT !.data =
     [k \in 1..Len(img.data) |->
        LET idx == k - 1
            c == idx % 4
            x == (idx \div 4) % img.width
            y == (idx \div 4) \div img.width
        IN IF SharpenedChannel(c) /\ InSharpenLoops(x, y, img.width, img.height)
             THEN clamp(KernelSum(img.data, img.width, x, y, c))
             ELSE img.data[k]]]

\* sharpenImage(imageData) (lines 397-423)
SharpenImage ==
  /\ applied = "none"
  /\ imageData # NoImage
  /\ original' = imageData.data
  /\ imageData' = Sharpened(imageData)
  /\ applied' = "sharpen"
  /\ UNCHANGED <<componentVars, levels, panoCanvas>>

\* frameWidth = targetWidth / frames.length (line 332)
FrameWidth(canvas) == canvas.width \div canvas.frames

\* blendWidth = frameWidth * 0.1 (line 333)
BlendWidth(canvas) == FrameWidth(canvas) \div 10

\* a gradient that runs from transparent to opaque
ReversedGradientAlpha(X, x0, x1) == X - x0

\* the alpha at coordinate X of the linear gradient from x0 to x1 with the
\* colour stops rgba(0,0,0,1) at 0 and rgba(0,0,0,0) at 1 (lines 345-347), as
\* the numerator of a fraction whose denominator is x1 - x0
GradientAlpha(X, x0, x1) == x1 - X

\* one iteration of the loop of stitchProfessionalPanorama (lines 335-352):
\* drawImage for slice i and, for i > 0, the destination-out fillRect with the
\* gradient over the first blendWidth columns of the slice
StitchSlice ==
  /\ panoCanvas # NoCanvas
  /\ panoCanvas.i < panoCanvas.frames
  /\ LET i == panoCanvas.i
         x == i * FrameWidth(panoCanvas)
         draw == [op |-> "drawImage", frame |-> i, x |-> x,
                  w |-> FrameWidth(panoCanvas)]
         fill == [op |-> "fillRect", frame |-> i, x |-> x,
                  w |-> BlendWidth(panoCanvas)]
     IN panoCanvas' = [panoCanvas EXCEPT
          !.i = i + 1,
          !.ops = IF i > 0 THEN @ \o <<draw, fill>> ELSE Append(@, draw)]
  /\ UNCHANGED <<componentVars, imageData, original, applied, levels>>

\* What the canvas holds at coordinate X: the frame drawn there (NULL: the
\* background of lines 328-329) and the fraction of that frame's colour that
\* is left.  drawImage replaces the content of the columns it covers;
\* destination-out multiplies what is there by 1 - alpha of the gradient.
AfterOp(content, o, X) ==
  IF ~(o.x <= X /\ X < o.x + o.w)
    THEN content
    ELSE IF o.op = "drawImage"
      THEN [frame |-> o.frame, weight |-> Fraction(1, 1)]
      ELSE [content EXCEPT !.weight =
              Fraction(@.num * (o.w - GradientAlpha(X, o.x, o.x + o.w)),
                       @.den * o.w)]

RECURSIVE ContentAt(_, _)
ContentAt(ops, X) ==
  IF ops = <<>>
    THEN [frame |-> NULL, weight |-> Fraction(1, 1)]
    ELSE AfterOp(ContentAt(SubSeq(ops, 1, Len(ops) - 1), X), ops[Len(ops)], X)

Max(S) == CHOOSE x \in S : \A y \in S : x >= y

\* A store into a Uint8ClampedArray of the value num/den: the value is
\* clamped to 0..255 and rounded to the nearest integer.  A value half way
\* between two integers goes to the even one, but whether the floating-point
\* value is exactly half way depends on the rounding errors of the
\* computation: at a tie both neighbours are allowed, `up` says which.
Store(f, up) ==
  IF f.num <= 0 THEN 0
  ELSE IF f.num >= 255 * f.den THEN 255
  ELSE LET q == f.num \div f.den
           r == f.num % f.den
       IN IF 2 * r < f.den THEN q
          ELSE IF 2 * r > f.den THEN q + 1
          ELSE IF up THEN q + 1 ELSE q

\* three times the brightness of pixel p: brightness = (r + g + b) / 3
\* (line 160)
Brightness3(data, p) == At(data, 4 * p) + At(data, 4 * p + 1) + At(data, 4 * p + 2)

PixelsOf(data) == 0..((Len(data) \div 4) - 1)

\* a stretch to 256 levels
scaleTo256(range3) ==
  IF range3 > 0 THEN Fraction(3 * 256, range3) ELSE Fraction(1, 1)

\* scale = range > 0 ? 255 / range : 1 (lines 166-167), for the range
\* range3 / 3
scale(range3) ==
  IF range3 > 0 THEN Fraction(3 * 255, range3) ELSE Fraction(1, 1)

\* the first loop of enhanceImageData (lines 156-167): minBrightness starts
\* at 255 and maxBrightness at 0
Levels(data) ==
  LET min3 == Min({3 * 255} \cup {Brightness3(data, p) : p \in PixelsOf(data)})
      max3 == Max({0} \cup {Brightness3(data, p) : p \in PixelsOf(data)})
  IN [min3 |-> min3, max3 |-> max3, scale |-> scale(max3 - min3)]

\* auto-levels: (v - minBrightness) * scale (lines 172-174)
AutoLevels(v, lv) ==
  Fraction((3 * v - lv.min3) * lv.scale.num, 3 * lv.scale.den)

\* applySCurve (lines 190-196): clamp(curved * 255), normalized = value / 255
applySCurve(value) ==
  IF 2 * value < 255
    THEN Fraction(2 * value * value, 255)
    ELSE Fraction(255 * 255 - 2 * (255 - value) * (255 - value), 255)

\* const saturationBoost = 1.15 (line 183)
saturationBoost == Fraction(115, 100)

\* avg + (v - avg) * saturationBoost with avg = sum / 3 (lines 182-186)
Saturated(v, sum) ==
  Fraction(sum * saturationBoost.den + (3 * v - sum) * saturationBoost.num,
           3 * saturationBoost.den)

\* the S-curve and the saturation boost on the colour <<r, g, b>> (lines
\* 177-186); each assignment is a store into the typed array
CurveAndBoost(rgb, up) ==
  LET curved == [c \in 1..3 |-> Store(applySCurve(rgb[c]), up)]
      sum == curved[1] + curved[2] + curved[3]
  IN [c \in 1..3 |-> Store(Saturated(curved[c], sum), up)]

\* the second loop of enhanceImageData for one pixel (lines 170-186)
EnhancedPixel(rgb, lv, up) ==
  CurveAndBoost([c \in 1..3 |-> Store(AutoLevels(rgb[c], lv), up)], up)

\* the data after enhanceImageData; alpha is not written
Enhanced(data, lv, up) ==
  [k \in 1..Len(data) |->
     LET p == (k - 1) \div 4
         c == (k - 1) % 4
         rgb == <<At(data, 4 * p), At(data, 4 * p + 1), At(data, 4 * p + 2)>>
     IN IF c = 3 THEN data[k] ELSE EnhancedPixel(rgb, lv, up)[c + 1]]

\* enhanceImageData(imageData) (lines 155-188)
EnhanceImageData ==
  /\ applied = "none"
  /\ imageData # NoImage
  /\ \E up \in BOOLEAN :
       /\ levels' = Levels(imageData.data)
       /\ imageData' = [imageData EXCEPT
            !.data = Enhanced(imageData.data, Levels(imageData.data), up)]
  /\ original' = imageData.data
  /\ applied' = "enhance"
  /\ UNCHANGED <<componentVars, panoCanvas>>

(* -------------------------------- time --------------------------------- *)
\* the due times of the armed timers
DueTimes ==
  {sessions[s].nextTick : s \in {x \in SessionIds : sessions[x].interval}}
  \cup {sessions[s].deadline : s \in {x \in SessionIds : sessions[x].timeout}}
  \cup {stitchTimers[k].due : k \in 1..Len(stitchTimers)}

\* time passes until the next timer is due
Advance ==
  /\ DueTimes # {}
  /\ Min(DueTimes) > now
  /\ Min(DueTimes) <= MaxTime
  /\ now' = Min(DueTimes)
  /\ UNCHANGED <<mounted, camVars, uiVars, capturing, capturedFrames,
                 orientVars, sessions, manualGrabs, stitchTimers, stitching,
                 delivered>>
  /\ UNCHANGED pixelVars

(* --------------------------- the whole component ----------------------- *)
Next ==
  \/ StartCameraGranted
  \/ StartCameraDenied
  \/ \E a \in Headings : HandleOrientation(a)
  \/ \E m \in Modes : SelectMode(m)
  \/ \E q \in Qualities : SelectQuality(q)
  \/ ToggleAiEnhancement
  \/ Close
  \/ StartGuidedCapture
  \/ StartAutoCapture
  \/ \E s \in SessionIds : IntervalTick(s)
  \/ \E s \in SessionIds : GrabResolved(s)
  \/ \E s \in SessionIds : GrabMissed(s)
  \/ \E s \in SessionIds : SafetyTimeout(s)
  \/ CaptureManualFrame
  \/ \E i \in 1..Len(manualGrabs) : ManualGrabResolved(i)
  \/ \E i \in 1..Len(manualGrabs) : ManualGrabMissed(i)
  \/ ProcessManual
  \/ StitchStart
  \/ \E i \in 1..Len(stitching) : StitchFinished(i)
  \/ \E i \in 1..Len(stitching) : StitchFailed(i)
  \/ Advance

Spec == Init /\ [][Next]_vars

(* ------------------------------ scenarios ------------------------------ *)
\* The state after the first getUserMedia call was granted (one
\* StartCameraGranted step from Init): the camera is active and the effect's
\* next startCamera() call is pending.
ComponentReady ==
  /\ mounted = TRUE
  /\ stream = 1
  /\ liveStreams = {1}
  /\ camPending = 1
  /\ nextStream = 2
  /\ cameraActive = TRUE
  /\ listening = TRUE
  /\ aiEnhancement = TRUE
  /\ capturing = FALSE
  /\ capturedFrames = <<>>
  /\ initialOrientation = NULL
  /\ progress = ZeroProgress
  /\ now = 0
  /\ sessions = <<>>
  /\ manualGrabs = <<>>
  /\ stitchTimers = <<>>
  /\ stitching = <<>>
  /\ delivered = <<>>
  /\ clicks = 0

CameraReady == ComponentReady /\ PixelsIdle

\* the steps of the sessions' timers and promises, of the stitching and of
\* the clock
Running ==
  \/ \E s \in SessionIds : IntervalTick(s)
  \/ \E s \in SessionIds : GrabResolved(s)
  \/ \E s \in SessionIds : GrabMissed(s)
  \/ StitchStart
  \/ \E i \in 1..Len(stitching) : StitchFinished(i)
  \/ \E i \in 1..Len(stitching) : StitchFailed(i)
  \/ Advance

\* One guided capture: the user has picked a quality, an orientation sample
\* has arrived or not, and the start button is clicked once.
InitGuided ==
  /\ CameraReady
  /\ mode = "guided"
  /\ captureQuality \in Qualities
  /\ deviceOrientation \in {NULL, 350}

StartFirstGuided == sessions = <<>> /\ StartGuidedCapture

NextGuided ==
  \/ StartFirstGuided
  \/ \E s \in SessionIds : SafetyTimeout(s)
  \/ Running

SpecGuided == InitGuided /\ [][NextGuided]_vars

\* One automatic capture.  startAutoCapture never reads settings.frames, so
\* one quality stands for all.
InitAuto ==
  /\ CameraReady
  /\ mode = "auto"
  /\ captureQuality = "high"
  /\ deviceOrientation \in {NULL, 350}

StartFirstAuto == sessions = <<>> /\ StartAutoCapture

NextAuto ==
  \/ StartFirstAuto
  \/ Running

SpecAuto == InitAuto /\ [][NextAuto]_vars

\* Manual mode: captures and the Process button.
InitManual ==
  /\ CameraReady
  /\ mode = "manual"
  /\ captureQuality \in Qualities
  /\ deviceOrientation = NULL

NextManual ==
  \/ CaptureManualFrame
  \/ \E i \in 1..Len(manualGrabs) : ManualGrabResolved(i)
  \/ \E i \in 1..Len(manualGrabs) : ManualGrabMissed(i)
  \/ ProcessManual
  \/ StitchStart
  \/ \E i \in 1..Len(stitching) : StitchFinished(i)
  \/ \E i \in 1..Len(stitching) : StitchFailed(i)
  \/ Advance

SpecManual == InitManual /\ [][NextManual]_vars

\* The controls during a guided capture for which no orientation sample has
\* arrived (every tick returns at line 226): the state right after the camera
\* was granted, with the defaults of lines 9 and 20.
InitControls ==
  /\ CameraReady
  /\ mode = "guided"
  /\ captureQuality = "ultra"
  /\ deviceOrientation = NULL

NextControls ==
  \/ StartFirstGuided
  \/ \E m \in Modes : SelectMode(m)
  \/ \E q \in Qualities : SelectQuality(q)
  \/ ToggleAiEnhancement
  \/ \E s \in SessionIds : IntervalTick(s)
  \/ \E s \in SessionIds : SafetyTimeout(s)
  \/ Advance

SpecControls == InitControls /\ [][NextControls]_vars

\* An automatic capture in which every grab yields a frame and during which
\* the user clicks the Manual mode button.
InitSwitch ==
  /\ CameraReady
  /\ mode = "auto"
  /\ captureQuality = "high"
  /\ deviceOrientation = NULL

NextSwitch ==
  \/ StartFirstAuto
  \/ SelectMode("manual")
  \/ \E s \in SessionIds : IntervalTick(s)
  \/ \E s \in SessionIds : GrabResolved(s)
  \/ StitchStart
  \/ \E i \in 1..Len(stitching) : StitchFinished(i)
  \/ \E i \in 1..Len(stitching) : StitchFailed(i)
  \/ Advance

SpecSwitch == InitSwitch /\ [][NextSwitch]_vars

\* The component from its first render on: the camera request is granted or
\* denied, a guided capture is started without an orientation sample, and the
\* close button is clicked at any moment.
NextClose ==
  \/ StartCameraGranted
  \/ StartCameraDenied
  \/ Close
  \/ StartFirstGuided
  \/ \E s \in SessionIds : IntervalTick(s)
  \/ \E s \in SessionIds : SafetyTimeout(s)
  \/ Advance

SpecClose == Init /\ [][NextClose]_vars

\* The component from its first render on, in all three modes: the camera
\* requests are granted or denied, the user picks a mode and clicks the start
\* and capture buttons; every manual grab yields a frame.
NextCamera ==
  \/ StartCameraGranted
  \/ StartCameraDenied
  \/ \E m \in Modes : SelectMode(m)
  \/ StartFirstGuided
  \/ StartFirstAuto
  \/ CaptureManualFrame
  \/ \E i \in 1..Len(manualGrabs) : ManualGrabResolved(i)

SpecCamera == Init /\ [][NextCamera]_vars

\* no frame grab of a session is pending
Settled == \A s \in SessionIds : sessions[s].inflight = 0

\* A guided or an automatic capture in which every frame grab settles, with
\* a frame or with no data, before the next timer fires.
InitMiss ==
  /\ CameraReady
  /\ mode \in {"guided", "auto"}
  /\ captureQuality = "high"
  /\ deviceOrientation = 350

NextMiss ==
  \/ StartFirstGuided
  \/ StartFirstAuto
  \/ Settled /\ \E s \in SessionIds : IntervalTick(s)
  \/ \E s \in SessionIds : GrabResolved(s)
  \/ \E s \in SessionIds : GrabMissed(s)
  \/ Settled /\ \E s \in SessionIds : SafetyTimeout(s)
  \/ StitchStart
  \/ \E i \in 1..Len(stitching) : StitchFinished(i)
  \/ \E i \in 1..Len(stitching) : StitchFailed(i)
  \/ Settled /\ Advance

SpecMiss == InitMiss /\ [][NextMiss]_vars

\* The rotation shown during a guided capture: the capture is started at
\* one heading and the sensor then reports other headings.
InitDelta ==
  /\ CameraReady
  /\ mode = "guided"
  /\ captureQuality = "high"
  /\ deviceOrientation \in HeadingSamples

NextDelta ==
  \/ StartFirstGuided
  \/ \E a \in HeadingSamples : HandleOrientation(a)

SpecDelta == InitDelta /\ [][NextDelta]_vars

\* The heading of a device that starts at 350 degrees when the capture
\* starts (time 0) and turns steadily, one angle increment of quality q every
\* RotateStepMs, through one full circle.
IncrementsAt(t, q) ==
  IF t \div RotateStepMs >= settings(q).frames THEN settings(q).frames
  ELSE t \div RotateStepMs

HeadingAt(t, q) ==
  (350 + IncrementsAt(t, q) * (FullCircle \div settings(q).frames)) % FullCircle

\* the deviceorientation event of the turning device
Rotate == HandleOrientation(HeadingAt(now, captureQuality))

\* the last deviceorientation event has been handled
UpToDate == deviceOrientation = HeadingAt(now, captureQuality)

\* A guided capture during which the device turns steadily through 360
\* degrees in less than 60 s; every frame grab yields a frame before the next
\* timer fires.
InitRotate ==
  /\ CameraReady
  /\ mode = "guided"
  /\ captureQuality \in Qualities
  /\ deviceOrientation = 350

NextRotate ==
  \/ StartFirstGuided
  \/ Rotate
  \/ Settled /\ UpToDate /\ \E s \in SessionIds : IntervalTick(s)
  \/ \E s \in SessionIds : GrabResolved(s)
  \/ Settled /\ \E s \in SessionIds : SafetyTimeout(s)
  \/ Settled /\ UpToDate /\ Advance

SpecRotate == InitRotate /\ [][NextRotate]_vars

\* Two guided captures in the same open camera: the first one holds one
\* frame when its 60 s timeout ends it, the sensor reports headings in
\* between, and the start button is clicked again.  Every grab yields a frame
\* before the next timer fires.
InitTwo ==
  /\ CameraReady
  /\ mode = "guided"
  /\ captureQuality = "high"
  /\ deviceOrientation = 350

NextTwo ==
  \/ StartGuidedCapture
  \/ \E a \in Headings : HandleOrientation(a)
  \/ Settled /\ \E s \in SessionIds : IntervalTick(s)
  \/ \E s \in SessionIds : GrabResolved(s)
  \/ Settled /\ \E s \in SessionIds : SafetyTimeout(s)
  \/ Settled /\ Advance

SpecTwo == InitTwo /\ [][NextTwo]_vars

\* An automatic capture in which every grab yields a frame, followed by
\* manual mode: the user clicks Manual and, once the automatic capture is
\* over, uses the Capture Frame and Process buttons.
NextReuse ==
  \/ StartFirstAuto
  \/ SelectMode("manual")
  \/ Settled /\ \E s \in SessionIds : IntervalTick(s)
  \/ \E s \in SessionIds : GrabResolved(s)
  \/ ~capturing /\ manualGrabs = <<>> /\ CaptureManualFrame
  \/ \E i \in 1..Len(manualGrabs) : ManualGrabResolved(i)
  \/ ProcessManual
  \/ StitchStart
  \/ \E i \in 1..Len(stitching) : StitchFinished(i)
  \/ Settled /\ Advance

SpecReuse == InitSwitch /\ [][NextReuse]_vars

\* Manual mode in which every grab yields a frame: the Capture Frame button
\* may be clicked again while an earlier grab is still pending.
NextOverlap ==
  \/ CaptureManualFrame
  \/ \E i \in 1..Len(manualGrabs) : ManualGrabResolved(i)
  \/ ProcessManual
  \/ StitchStart
  \/ \E i \in 1..Len(stitching) : StitchFinished(i)
  \/ Advance

SpecOverlap == InitManual /\ [][NextOverlap]_vars

\* The simple component with its camera running: a panoramic capture in
\* which every frame grab settles, with a frame or with no data, before the
\* next timer fires.
NextSimple ==
  \/ StartPanoramicCapture
  \/ Settled /\ \E s \in SessionIds : PanoTick(s)
  \/ \E s \in SessionIds : PanoGrabResolved(s)
  \/ \E s \in SessionIds : PanoGrabMissed(s)
  \/ Settled /\ \E s \in SessionIds : AutoStop(s)
  \/ \E i \in 1..Len(stitching) : StitchPanoramaFinished(i)
  \/ Settled /\ Advance

\* mode, captureQuality and aiEnhancement are not state of the simple
\* component; they stay at fixed values
InitSimple ==
  /\ CameraReady
  /\ mode = "auto"
  /\ captureQuality = "ultra"
  /\ deviceOrientation = NULL

SpecSimple == InitSimple /\ [][NextSimple]_vars

\* Manual mode after the user has switched AI enhancement off: captures in
\* which every grab yields a frame, the enhancement toggle and the Process
\* button.  The click budget counts from this state on.
InitToggle ==
  /\ mounted = TRUE
  /\ stream = 1
  /\ liveStreams = {1}
  /\ camPending = 1
  /\ nextStream = 2
  /\ cameraActive = TRUE
  /\ listening = TRUE
  /\ mode = "manual"
  /\ captureQuality = "ultra"
  /\ aiEnhancement = FALSE
  /\ capturing = FALSE
  /\ capturedFrames = <<>>
  /\ deviceOrientation = NULL
  /\ initialOrientation = NULL
  /\ progress = ZeroProgress
  /\ now = 0
  /\ sessions = <<>>
  /\ manualGrabs = <<>>
  /\ stitchTimers = <<>>
  /\ stitching = <<>>
  /\ delivered = <<>>
  /\ clicks = 0
  /\ PixelsIdle

NextToggle ==
  \/ ToggleAiEnhancement
  \/ manualGrabs = <<>> /\ CaptureManualFrame
  \/ \E i \in 1..Len(manualGrabs) : ManualGrabResolved(i)
  \/ ProcessManual
  \/ StitchStart
  \/ \E i \in 1..Len(stitching) : StitchFinished(i)
  \/ Advance

SpecToggle == InitToggle /\ [][NextToggle]_vars

\* The component at rest while a pixel routine is examined on its own.
ComponentIdle ==
  /\ ComponentReady
  /\ mode = "guided"
  /\ captureQuality = "ultra"
  /\ deviceOrientation = NULL

\* RGBA colours, in pairs: the rasters of the sharpening pass are painted
\* with the two colours of one pair.
Palettes ==
  { << <<0, 0, 0, 255>>, <<255, 255, 255, 255>> >>,
    << <<100, 110, 120, 200>>, <<90, 100, 130, 255>> >>,
    << <<10, 128, 250, 0>>, <<20, 120, 255, 255>> >> }

\* the data of the raster of the given size in which pixel p has the colour
\* pal[pick[p]]
Raster(width, height, pal, pick) ==
  [width |-> width, height |-> height,
   data |-> [k \in 1..(4 * width * height) |->
               pal[pick[(k - 1) \div 4]][((k - 1) % 4) + 1]]]

\* sharpenImage on every raster of height RasterHeight and width up to
\* RasterWidth whose pixels have one of the two colours of a pair
InitSharpen ==
  /\ ComponentIdle
  /\ \E width \in 3..RasterWidth, pal \in Palettes :
       \E pick \in [0..(width * RasterHeight - 1) -> {1, 2}] :
         imageData = Raster(width, RasterHeight, pal, pick)
  /\ original = <<>>
  /\ applied = "none"
  /\ levels = NoLevels
  /\ panoCanvas = NoCanvas

NextSharpen == SharpenImage

SpecSharpen == InitSharpen /\ [][NextSharpen]_vars

\* The assembly loop on canvases of a small width, for every number of
\* frames up to MaxFrames for which frameWidth and blendWidth are whole
\* numbers of columns.
CanvasWidths == {240, 480}

InitStitch ==
  /\ ComponentIdle
  /\ imageData = NoImage
  /\ original = <<>>
  /\ applied = "none"
  /\ levels = NoLevels
  /\ \E width \in CanvasWidths :
       \E n \in {m \in 1..MaxFrames : width % (10 * m) = 0} :
         panoCanvas = [width |-> width, frames |-> n, i |-> 0, ops |-> <<>>]

NextStitch == StitchSlice

SpecStitch == InitStitch /\ [][NextStitch]_vars

\* enhanceImageData on every raster of EnhancePixels pixels in a row whose
\* colours are taken from Colours.
Colours ==
  { <<0, 0, 0, 255>>, <<255, 255, 255, 255>>, <<100, 150, 200, 255>>,
    <<150, 150, 150, 128>>, <<255, 0, 0, 255>>, <<10, 20, 30, 0>>,
    <<128, 127, 129, 255>> }

InitEnhance ==
  /\ ComponentIdle
  /\ \E px \in [0..(EnhancePixels - 1) -> Colours] :
       imageData = [width |-> EnhancePixels, height |-> 1,
                    data |-> [k \in 1..(4 * EnhancePixels) |->
                                px[(k - 1) \div 4][((k - 1) % 4) + 1]]]
  /\ original = <<>>
  /\ applied = "none"
  /\ levels = NoLevels
  /\ panoCanvas = NoCanvas

NextEnhance == EnhanceImageData

SpecEnhance == InitEnhance /\ [][NextEnhance]_vars

(* ------------------------------- claims -------------------------------- *)
\* completeCaptureAndProcess calls made for session s that can still be
\* seen: armed stitch timers, running stitches and delivered files
Of(seq, s) == Cardinality({k \in 1..Len(seq) : seq[k].src = s})

CompletionsOf(s) == Of(stitchTimers, s) + Of(stitching, s) + Of(delivered, s)

\* C1: within one capture session at most one frame grab is in flight at any
\* time: a tick that arrives while the previous captureEnhancedFrame call has
\* not resolved starts no second grab.
C1_AtMostOneGrabInFlight ==
  \A s \in SessionIds : sessions[s].inflight <= 1

\* C2: completeCaptureAndProcess / stitchProfessionalPanorama runs at most
\* once per started session and onCapture is called at most once for it.
C2_CompletesAtMostOnce ==
  \A s \in SessionIds : CompletionsOf(s) <= 1

\* C3: once a session is terminal (its capture loop was stopped by a
\* completion) or the component was closed, no timer of the session fires
\* with an effect: it appends no frame, changes no status and starts no
\* assembly.
C3_NoTimerEffectAfterTerminal ==
  [][\A s \in SessionIds :
       ( /\ ~sessions[s].interval \/ ~mounted
         /\ \/ sessions[s].timeout /\ ~sessions'[s].timeout
            \/ sessions[s].interval /\ sessions'[s].nextTick # sessions[s].nextTick )
       => /\ capturing' = capturing
          /\ capturedFrames' = capturedFrames
          /\ stitchTimers' = stitchTimers
          /\ sessions'[s].frames = sessions[s].frames
          /\ sessions'[s].inflight = sessions[s].inflight]_vars

\* C4: when a guided session completes by frame count, the frames the
\* assembler gets number exactly the profile's frame count, and they are the
\* session's own frames in the order they were appended.
C4_CountCompletionHandsFrameCount ==
  \A k \in 1..Len(stitching) :
    stitching[k].by = "count"
      => /\ Len(stitching[k].snap) = QUALITY_SETTINGS[stitching[k].quality].frames
         /\ \A i \in 1..Len(stitching[k].snap) :
              stitching[k].snap[i].sess = stitching[k].src

\* C5: in every reachable state the number of frames held for the session
\* never exceeds the selected quality profile's frame count.
C5_FramesWithinProfile ==
  /\ \A s \in SessionIds :
       Len(sessions[s].frames) <= QUALITY_SETTINGS[sessions[s].quality].frames
  /\ Len(capturedFrames) <= QUALITY_SETTINGS[captureQuality].frames

C7_AutoBudgetNeedsCoverage ==
  \A k \in 1..Len(stitchTimers) :
    stitchTimers[k].by = "budget"
      => 100 * Len(sessions[stitchTimers[k].src].frames)
           >= 75 * QUALITY_SETTINGS[stitchTimers[k].quality].frames

\* C8: an automatic session stops its 500 ms loop no later than the first
\* tick after the 20 s budget, also when the image source yields no data:
\* with no grab pending, the loop is not armed once that tick has passed.
C8_AutoLoopStopsAfterBudget ==
  \A s \in SessionIds :
    (sessions[s].kind = "auto" /\ sessions[s].interval /\ sessions[s].inflight = 0)
      => now <= sessions[s].startTime + 20000 + 500

\* C9: in manual mode finish() starts no assembly with fewer than 12 frames
\* and is accepted with 12 or more, whatever the quality profile.
C9_ManualFinishFloor ==
  /\ \A k \in 1..Len(stitchTimers) :
       stitchTimers[k].by = "finish" => Len(stitchTimers[k].snap) >= 12
  /\ \A k \in 1..Len(stitching) :
       stitching[k].by = "finish" => Len(stitching[k].snap) >= 12
  /\ \A k \in 1..Len(delivered) :
       delivered[k].by = "finish" => Len(delivered[k].frames) >= 12
  /\ (mounted /\ mode = "manual" /\ clicks < MaxClicks
        /\ Len(capturedFrames) >= 12) => ENABLED ProcessManual
  /\ Len(capturedFrames) < 12 => ~ENABLED ProcessManual

\* finish() accepted with exactly 12 frames under the 60-frame profile
C9_Witness ==
  \E k \in 1..Len(stitchTimers) :
    /\ stitchTimers[k].by = "finish"
    /\ Len(stitchTimers[k].snap) = 12
    /\ stitchTimers[k].quality = "pro"

\* C10: selectMode and selectProfile after sampling has started are no-ops:
\* while a capture is in progress mode and quality keep their values.
C10_ControlsIgnoredWhileCapturing ==
  [][capturing => (mode' = mode /\ captureQuality' = captureQuality)]_vars

\* C11: while the mode is manual no timer-driven capture loop appends a frame
\* or completes its session: in a step taken in manual mode every session
\* keeps its frames and no assembly is scheduled for a session.
C11_ManualOnlyUserCaptures ==
  [][mode = "manual" =>
       \A s \in SessionIds :
         /\ sessions'[s].frames = sessions[s].frames
         /\ Of(stitchTimers', s) <= Of(stitchTimers, s)]_vars

\* C12: after close() no camera stream track is live, no deviceorientation
\* listener is registered and no session timer is armed, also when a camera
\* request was pending at the moment of the close.
C12_CloseReleasesEverything ==
  ~mounted =>
    /\ liveStreams = {}
    /\ ~listening
    /\ \A s \in SessionIds : ~sessions[s].interval /\ ~sessions[s].timeout

\* C13: a session that reached a terminal state has released its sensor
\* subscriptions: once a guided session was aborted for insufficient coverage
\* and nothing of it is pending any more, no camera stream track is live and
\* no deviceorientation listener is registered.
C13_TerminalReleasesSensors ==
  \A s \in SessionIds :
    ( /\ sessions[s].notEnoughCoverage
      /\ sessions[s].inflight = 0
      /\ stitchTimers = <<>> /\ stitching = <<>> )
    => liveStreams = {} /\ ~listening

\* C14: the assembler is started only for a completed session and only with
\* a non-empty frame sequence: no running assembly belongs to a session that
\* was aborted for insufficient coverage or holds zero frames, and no
\* delivered file was assembled from zero frames.
C14_AssemblerOnlyFromCompleted ==
  /\ \A k \in 1..Len(stitching) :
       /\ Len(stitching[k].snap) > 0
       /\ stitching[k].src # 0 => ~sessions[stitching[k].src].notEnoughCoverage
  /\ \A k \in 1..Len(delivered) : Len(delivered[k].frames) > 0

\* the part of C14 about empty frame sequences
C14_NonEmptyPart ==
  /\ \A k \in 1..Len(stitching) : Len(stitching[k].snap) > 0
  /\ \A k \in 1..Len(delivered) : Len(delivered[k].frames) > 0

\* C15: until a camera stream has been acquired no capture loop is started,
\* no frame is captured and nothing is assembled or delivered, in every mode;
\* and while the camera is not active the start and capture buttons do
\* nothing.
C15_NoCaptureWithoutCamera ==
  /\ nextStream = 1 =>
       /\ sessions = <<>> /\ manualGrabs = <<>> /\ capturedFrames = <<>>
       /\ stitchTimers = <<>> /\ stitching = <<>> /\ delivered = <<>>
       /\ ~capturing
  /\ ~cameraActive =>
       /\ ~ENABLED StartGuidedCapture
       /\ ~ENABLED StartAutoCapture
       /\ ~ENABLED CaptureManualFrame

\* every camera request so far was denied, the last one after the user had
\* switched to automatic mode
C15_Witness ==
  /\ mounted /\ camPending = 0 /\ nextStream = 1 /\ ~cameraActive
  /\ mode = "auto" /\ clicks > 0

\* C16: a guided capture for which no orientation sample is available does
\* not stay in the capturing state: past the instant of the start no guided
\* session without an orientation source is still capturing with its loop
\* armed.
C16_GuidedNeedsOrientation ==
  \A s \in SessionIds :
    ( /\ sessions[s].kind = "guided"
      /\ sessions[s].orient = NULL
      /\ sessions[s].interval
      /\ capturing )
    => now = sessions[s].startTime

\* C17: a frame grab that yields no data is a recoverable miss: the step
\* leaves the session's frames, its timers and the capturing state as they
\* are and schedules no assembly; and a tick of a loop that is to capture
\* (automatic: every tick; guided: while no frame is held) starts a grab
\* whatever was missed before, whose data, if any, is appended as one frame.
C17_MissIsRecoverable ==
  [][\A s \in SessionIds :
       /\ ( /\ sessions'[s].inflight < sessions[s].inflight
            /\ sessions'[s].frames = sessions[s].frames )
          => /\ sessions'[s] = [sessions[s] EXCEPT !.inflight = @ - 1]
             /\ capturing' = capturing
             /\ capturedFrames' = capturedFrames
             /\ stitchTimers' = stitchTimers
             /\ stitching' = stitching
       /\ ( /\ sessions'[s].inflight < sessions[s].inflight
            /\ sessions'[s].frames # sessions[s].frames )
          => Len(sessions'[s].frames) = Len(sessions[s].frames) + 1
       /\ ( /\ sessions'[s].nextTick # sessions[s].nextTick
            /\ mounted
            /\ \/ sessions[s].kind = "auto"
               \/ sessions[s].orient # NULL /\ sessions[s].frames = <<>> )
          => sessions'[s].inflight = sessions[s].inflight + 1]_vars

\* an automatic session whose grab at 500 ms yielded no data and whose grab
\* at 1000 ms appended the first frame
C17_Witness ==
  \E s \in SessionIds :
    /\ sessions[s].kind = "auto"
    /\ now = sessions[s].startTime + 1000
    /\ sessions[s].nextTick = now + 500
    /\ sessions[s].inflight = 0
    /\ Len(sessions[s].frames) = 1
    /\ progress = Fraction(1000, captureDuration)
    /\ capturing

\* C18: the heading delta handleOrientation computes between the reference
\* heading b and a new heading a, both in [0, 360), is the shorter circular
\* arc: it is the same for (a, b) and (b, a), it lies in 0..180, it is
\* |a - b| or 360 - |a - b|, whichever is smaller, and for 350 and 10 it
\* is 20.
C18_DeltaIsShorterArc ==
  [][( /\ initialOrientation # NULL
       /\ mode = "guided"
       /\ deviceOrientation' # deviceOrientation )
     => /\ progress'.den = 360
        /\ progress'.num = NormalizedRotation(initialOrientation, deviceOrientation')
        /\ progress'.num >= 0 /\ progress'.num <= 180
        /\ \/ progress'.num = Abs(deviceOrientation' - initialOrientation)
           \/ progress'.num = 360 - Abs(deviceOrientation' - initialOrientation)
        /\ progress'.num <= Abs(deviceOrientation' - initialOrientation)
        /\ progress'.num <= 360 - Abs(deviceOrientation' - initialOrientation)
        /\ (initialOrientation = 350 /\ deviceOrientation' = 10)
             => progress'.num = 20]_vars

\* the reference heading is 350, the sensor reports 10 and the delta is 20
C18_Witness ==
  /\ initialOrientation = 350
  /\ deviceOrientation = 10
  /\ progress = Fraction(20, 360)

\* C19: a guided session during which the device turns steadily through a
\* full circle within 60 s, every grab yielding a frame, is completed with
\* the profile's frame count: when its 60 s timeout has fired the session
\* holds frameCount frames and was not aborted.
C19_GuidedCompletesOnFullRotation ==
  \A s \in SessionIds :
    (sessions[s].kind = "guided" /\ ~sessions[s].timeout)
      => /\ Len(sessions[s].frames) = QUALITY_SETTINGS[sessions[s].quality].frames
         /\ ~sessions[s].notEnoughCoverage

\* C20: after the first frame a guided session captures a frame exactly when
\* the rotation from its reference heading has passed the next multiple of
\* 360/frameCount degrees: once a tick and its grab are done, the session
\* holds one frame more than the number of increments the device has turned
\* (at most frameCount), also when the heading has wrapped across 0/360.
C20_FramePerIncrement ==
  \A s \in SessionIds :
    ( /\ sessions[s].kind = "guided"
      /\ sessions[s].interval
      /\ sessions[s].inflight = 0
      /\ UpToDate
      /\ now >= sessions[s].startTime + 200
      /\ sessions[s].nextTick > now )
    => Len(sessions[s].frames)
         = IF 1 + IncrementsAt(now - sessions[s].startTime, sessions[s].quality)
                > QUALITY_SETTINGS[sessions[s].quality].frames
             THEN QUALITY_SETTINGS[sessions[s].quality].frames
             ELSE 1 + IncrementsAt(now - sessions[s].startTime, sessions[s].quality)

\* C21: in guided mode the first frame is captured on the first tick, also
\* when no orientation sample has been received: once the first tick of a
\* guided session has run, a grab is pending or a frame is held.
C21_FirstTickCaptures ==
  \A s \in SessionIds :
    ( /\ sessions[s].kind = "guided"
      /\ mounted
      /\ sessions[s].nextTick > sessions[s].startTime + 200 )
    => sessions[s].inflight > 0 \/ sessions[s].frames # <<>>

\* C22: every guided session takes its reference orientation at its own
\* start: while the latest guided session samples, the reference orientation
\* is the orientation sample that was current when that session was started.
C22_ReferencePerSession ==
  (sessions # <<>> /\ sessions[Len(sessions)].kind = "guided"
     /\ sessions[Len(sessions)].interval
     /\ sessions[Len(sessions)].orient # NULL)
  => initialOrientation = sessions[Len(sessions)].orient

\* C23: every session begins with an empty frame sequence: the frames an
\* assembly started by the manual Process button works on, and the frames
\* of the file it delivers, were all captured by manual captures, none by an
\* earlier guided or automatic session.
C23_ManualStartsEmpty ==
  /\ \A k \in 1..Len(stitching) :
       stitching[k].by = "finish"
         => \A i \in 1..Len(stitching[k].snap) : stitching[k].snap[i].sess = 0
  /\ \A k \in 1..Len(delivered) :
       delivered[k].by = "finish"
         => \A i \in 1..Len(delivered[k].frames) : delivered[k].frames[i].sess = 0

\* C24: each successful manual capture increases the stored frame count by
\* exactly one, also when captures overlap: every step in which the grab of
\* a manual capture resolves with a frame makes capturedFrames one longer.
C24_CaptureAddsOne ==
  [][(\E i \in 1..Len(manualGrabs) : ManualGrabResolved(i))
       => Len(capturedFrames') = Len(capturedFrames) + 1]_vars

\* C25: opening the camera acquires it once: before any user action, once an
\* acquired stream is stored no further getUserMedia request is outstanding,
\* and at most one acquired stream has live tracks.
C25_AcquiredOnce ==
  (mounted /\ sessions = <<>> /\ clicks = 0 /\ stream # NULL)
    => (camPending = 0 /\ Cardinality(liveStreams) <= 1)

\* C26: in the simple component a panoramic capture that is still running at
\* 30 s is stopped by the auto-stop timer: once the auto-stop timer of a
\* capture has fired, the capture's interval is cleared.
C26_AutoStopStops ==
  \A s \in SessionIds :
    (sessions[s].kind = "pano" /\ ~sessions[s].timeout)
      => ~sessions[s].interval

\* C27: metadata.aiEnhanced is true only if every frame was enhanced at
\* capture, whatever the toggle did in between: every delivered file whose
\* aiEnhanced flag is set consists of enhanced frames only.
C27_FlagMeansEnhanced ==
  \A k \in 1..Len(delivered) :
    delivered[k].aiEnhanced
      => \A i \in 1..Len(delivered[k].frames) : delivered[k].frames[i].enh

\* the value of channel c of pixel (x, y) of a raster of the given width
Px(data, width, x, y, c) == data[(y * width + x) * 4 + c + 1]

\* the sum of channel c over the 8 neighbours of pixel (x, y)
NeighbourSum(data, width, x, y, c) ==
  Px(data, width, x - 1, y - 1, c) + Px(data, width, x, y - 1, c)
    + Px(data, width, x + 1, y - 1, c) + Px(data, width, x - 1, y, c)
    + Px(data, width, x + 1, y, c) + Px(data, width, x - 1, y + 1, c)
    + Px(data, width, x, y + 1, c) + Px(data, width, x + 1, y + 1, c)

\* every pixel of the raster has the colour of pixel 0
Uniform(data) == \A k \in 1..Len(data) : data[k] = data[((k - 1) % 4) + 1]

\* C28: the sharpening pass leaves every pixel of the outermost rows and
\* columns and every alpha value unchanged; each interior colour value becomes
\* clamp(9*centre - sum of its 8 neighbours) computed from the raster as it
\* was before the pass; a uniformly coloured raster is unchanged.
C28_Sharpening ==
  applied = "sharpen" =>
    LET w == imageData.width
        h == imageData.height
        d == imageData.data
    IN /\ Len(d) = Len(original)
       /\ \A x \in 0..(w - 1), y \in 0..(h - 1) :
            /\ Px(d, w, x, y, 3) = Px(original, w, x, y, 3)
            /\ \A c \in 0..2 :
                 IF x = 0 \/ y = 0 \/ x = w - 1 \/ y = h - 1
                   THEN Px(d, w, x, y, c) = Px(original, w, x, y, c)
                   ELSE Px(d, w, x, y, c)
                          = clamp(9 * Px(original, w, x, y, c)
                                    - NeighbourSum(original, w, x, y, c))
       /\ Uniform(original) => d = original

\* a raster with two interior pixels, next to each other, has been sharpened:
\* the first became a value that is neither clamped nor the old one, the
\* second changed as well
C28_Witness ==
  /\ applied = "sharpen"
  /\ imageData.width = 4
  /\ Px(imageData.data, 4, 1, 1, 0) \notin {0, 255, Px(original, 4, 1, 1, 0)}
  /\ Px(imageData.data, 4, 2, 1, 0) # Px(original, 4, 2, 1, 0)
  /\ \E x \in 0..3 : Px(original, 4, x, 0, 3) # Px(original, 4, 1, 1, 3)

\* the weight of the new frame at coordinate X of the canvas
WeightAt(X) == ContentAt(panoCanvas.ops, X).weight

LessEq(a, b) == a.num * b.den <= b.num * a.den

FullRange(data) ==
  /\ \E p \in PixelsOf(data) : Brightness3(data, p) = 0
  /\ \E p \in PixelsOf(data) : Brightness3(data, p) = 3 * 255

\* the raster as enhanceImageData leaves it when the auto-levels stage
\* changes nothing
WithoutLevels(data, up) ==
  [k \in 1..Len(data) |->
     LET p == (k - 1) \div 4
         c == (k - 1) % 4
         rgb == <<At(data, 4 * p), At(data, 4 * p + 1), At(data, 4 * p + 2)>>
     IN IF c = 3 THEN data[k] ELSE CurveAndBoost(rgb, up)[c + 1]]

\* C30: auto-levels is the identity on a full-range image: when the raster
\* has a pixel of luminance 0 and one of luminance 255, min is 0, max is 255
\* and scale is 1, the remap (v - min)*scale leaves every channel value
\* unchanged, and the raster is what the later stages alone make of it; when
\* max = min the scale is 1, no division by zero.
C30_AutoLevelsIdentity ==
  applied = "enhance" =>
    /\ FullRange(original) =>
         /\ levels.min3 = 0
         /\ levels.max3 = 3 * 255
         /\ levels.scale.den > 0
         /\ levels.scale.num = levels.scale.den
         /\ \A v \in 0..255, up \in BOOLEAN :
              Store(AutoLevels(v, levels), up) = v
         /\ \E up \in BOOLEAN : imageData.data = WithoutLevels(original, up)
    /\ levels.max3 = levels.min3 => levels.scale = Fraction(1, 1)

\* a full-range raster with a pixel that is neither black nor white has been
\* enhanced, and the later stages changed it
C30_Witness ==
  /\ applied = "enhance"
  /\ FullRange(original)
  /\ \E p \in PixelsOf(original) : Brightness3(original, p) \notin {0, 3 * 255}
  /\ imageData.data # original

====
